---- MODULE Spec2Model ----
(***************************************************************************)
(* A model of streamcorpus/_chunk.py: the Chunk reader/writer for batches  *)
(* of Thrift messages over a digesting file wrapper (md5_file), and the    *)
(* xz/gpg pipeline functions compress_and_encrypt / decrypt_and_uncompress.*)
(*                                                                         *)
(* Bytes are small naturals.  A message is abstracted to its number of     *)
(* fields: the Thrift binary protocol writes one header per field and a    *)
(* STOP byte, and reads field headers until it sees STOP.                  *)
(***************************************************************************)
EXTENDS Integers, Sequences, FiniteSets, TLC

\* ------------------------------------------------------------------ bounds
MaxMsg == 1        \* a message has 0..MaxMsg fields
MaxAdds == 2       \* add() calls that succeed in one run
MaxChunks == 2     \* Chunk constructions in one run
MaxPasses == 2     \* fresh iterations started on one Chunk object
RBufSize == 3      \* TBufferedTransport's read block (4096 in Thrift, scaled)
MaxFaults == 1     \* child processes of one pipeline call that break down

\* --------------------------------------------------------------- constants
T_STOP == 0        \* TType.STOP, the byte that ends a struct
T_FIELD == 1       \* a field header (its type byte is never STOP)
XzMagic == 2       \* first byte of an xz container

Msgs == 0..MaxMsg
Modes == {"wb", "ab", "rb"}
Paths == {"d/f", "f.xz"}
None == <<>>

VARIABLES
    \* the file system
    fs_files,      \* the paths that exist
    fs_data,       \* the content of each path
    fs_dirs,       \* the directories that exist
    \* the Chunk object the caller holds
    alive,         \* a Chunk has been constructed
    mode,          \* self.mode
    _count,        \* self._count
    _md5_hexdigest, \* self._md5_hexdigest (None until close() snapshots it)
    _o_chunk_fh,   \* self._o_chunk_fh is not None
    _o_protocol,   \* self._o_protocol is not None
    _i_chunk_fh,   \* self._i_chunk_fh is not None
    wbuf,          \* the write buffer of self._o_transport
    md5,           \* md5_file._md5: the bytes folded in so far
    target,        \* what md5_file._fh is open on: a path, or "mem"
    mem,           \* content of the in-memory buffer, handle or pipe
    fpos,          \* read position of md5_file._fh
    seekable,      \* md5_file._fh.seek(0) succeeds
    fh_closed,     \* md5_file._fh has been closed
    \* the generator returned by Chunk.__iter__
    it_pc,         \* "none", "running" or "finished"
    rbuf,          \* the read buffer of the generator's i_transport
    yielded,       \* the messages the current generator has yielded
    \* what the caller did last, and bookkeeping of the run
    last,          \* the last call and how it ended
    src_path,      \* the path argument the Chunk was constructed with
    added,         \* messages passed to add() before close() on this Chunk
    origin,        \* per path: <<msgs>> if a "wb" Chunk wrote exactly msgs
    work_path,     \* the one path this run's caller works on
    nChunks,       \* constructions so far
    nAdds,         \* add() calls that succeeded so far
    passes,        \* fresh iterations started on this Chunk
    closed,        \* close() has been called on this Chunk
    full_passes    \* iterations on this Chunk that ran to their end

VARIABLES
    \* compress_and_encrypt / decrypt_and_uncompress
    call,          \* per caller: the running call's locals and where it is
    tmp_dirs,      \* the scratch directories that exist under /tmp
    homedir,       \* per scratch directory: the keys imported into it
    uuid_count,    \* uuid.uuid1() values handed out so far
    \* bookkeeping of the pipeline calls
    ran,           \* per caller: the child processes the running call launched
    plain          \* per caller: <<d>> if the call's input is what
                   \* compress_and_encrypt, its tools working, returned for d

pipeVars == <<call, tmp_dirs, homedir, uuid_count, ran, plain>>
fsVars == <<fs_files, fs_data, fs_dirs>>
objVars == <<alive, mode, _count, _md5_hexdigest, _o_chunk_fh, _o_protocol,
             _i_chunk_fh, wbuf, md5, target, mem, fpos, seekable, fh_closed>>
itVars == <<it_pc, rbuf, yielded>>
ghostVars == <<src_path, added, origin, work_path, nChunks, nAdds, passes,
               closed, full_passes>>
chunkVars == <<fsVars, objVars, itVars, ghostVars, last>>
vars == <<chunkVars, pipeVars>>

\* ------------------------------------------------------------------ codec
\* msg.write(protocol): one header per field, then STOP.
RECURSIVE Encode(_)
Encode(m) == IF m = 0 THEN <<T_STOP>> ELSE <<T_FIELD>> \o Encode(m - 1)

RECURSIVE EncodeAll(_)
EncodeAll(ms) == IF ms = <<>> THEN <<>> ELSE Encode(Head(ms)) \o EncodeAll(Tail(ms))

\* hashlib.md5: update() folds bytes in, hexdigest() names what was folded.
md5_new == <<>>
md5_update(h, data) == h \o data
hexdigest(h) == <<"md5", h>>
Md5Of(bytes) == hexdigest(md5_update(md5_new, bytes))

RECURSIVE Reverse(_)
Reverse(s) == IF s = <<>> THEN <<>> ELSE Reverse(Tail(s)) \o <<Head(s)>>

\* xz: a container is the magic byte and the payload, transformed.
XzCompress(b) == <<XzMagic>> \o Reverse(b)
XzValid(c) == c # <<>> /\ Head(c) = XzMagic
            /\ \A i \in 2..Len(c) : c[i] # XzMagic
\* xzcat path: stdout is the payload, or nothing when the file is no container
\* (the error goes to stderr, which the constructor never reads).
XzCat(c) == IF XzValid(c) THEN Reverse(Tail(c)) ELSE <<>>

\* ------------------------------------------------------------ the inputs
\* Byte buffers a caller passes as data=, or that a caller's open handle
\* already holds: two well-formed records, and one record followed by a
\* record cut short.
Buffers == {EncodeAll(<<1, 0>>), Encode(0) \o <<T_FIELD>>}
\* file_obj=: an open file, which carries its .mode; a file opened "wb"
\* starts empty.
Handles == {[hmode |-> "wb", content |-> <<>>]}
           \cup [hmode : {"rb", "ab"}, content : {EncodeAll(<<1, 0>>)}]
Opt(S) == {None} \cup {<<x>> : x \in S}

endswith_xz(path) == path = "f.xz"
dirname(path) == IF path = "d/f" THEN "d" ELSE ""

\* ------------------------------------------------------- Chunk.__init__
\* line 136: a path excludes data and file_obj.
only_path(data, file_obj) == data = None /\ file_obj = None
\* line 140 letting "wb" through.
modes_existing_any == {"rb", "ab", "wb"}
\* line 140: the modes allowed on a path that exists.
modes_existing == {"rb", "ab"}
\* line 143: an existing .xz path is read only.
xz_mode_ok(m) == m = "rb"
\* line 155: the modes allowed on a path that does not exist.
modes_missing == {"wb", "ab"}
\* line 184: an open handle's mode agrees with the mode argument.
letter(m) == IF m = "rb" THEN "r" ELSE IF m = "wb" THEN "w" ELSE "a"
handle_mode_ok(h, m) == letter(h.hmode) = letter(m)

Failed(e) == [result |-> e, mkdir |-> FALSE, create |-> FALSE, mode |-> "",
              target |-> "mem", mem |-> <<>>, seekable |-> FALSE]
Opened(m, t, c, sk, mk, cr) ==
    [result |-> "ok", mkdir |-> mk, create |-> cr, mode |-> m,
     target |-> t, mem |-> c, seekable |-> sk]

\* Lines 135-187: which byte store the arguments resolve to, or the failure.
resolve(path, data, file_obj, m) ==
    IF path # "None" THEN
        IF ~only_path(data, file_obj) THEN Failed("AssertionError")
        ELSE IF path \in fs_files THEN
            IF m \notin modes_existing THEN Failed("AssertionError")
            ELSE IF endswith_xz(path) THEN
                IF ~xz_mode_ok(m) THEN Failed("AssertionError")
                ELSE Opened(m, "mem", XzCat(fs_data[path]), FALSE, FALSE, FALSE)
            ELSE Opened(m, path, <<>>, TRUE, FALSE, FALSE)
        ELSE
            IF m \notin modes_missing THEN Failed("AssertionError")
            ELSE Opened(m, path, <<>>, TRUE,
                        dirname(path) # "" /\ dirname(path) \notin fs_dirs, TRUE)
    ELSE IF data = None /\ file_obj = None THEN
        Opened("wb", "mem", <<>>, TRUE, FALSE, FALSE)
    ELSE IF file_obj = None THEN
        IF m = "rb" THEN Opened(m, "mem", data[1], TRUE, FALSE, FALSE)
        ELSE IF m = "ab" THEN Opened(m, "mem", data[1], TRUE, FALSE, FALSE)
        ELSE Failed("Exception")
    ELSE
        IF ~handle_mode_ok(file_obj[1], m) THEN Failed("AssertionError")
        ELSE Opened(m, "mem", file_obj[1].content, TRUE, FALSE, FALSE)

Sources(path, data, file_obj) ==
    (IF path # "None" THEN {"path"} ELSE {})
    \cup (IF data # None THEN {"data"} ELSE {})
    \cup (IF file_obj # None THEN {"file_obj"} ELSE {})

Call(op, result) ==
    [op |-> op, result |-> result, path |-> "None", mode |-> "", srcs |-> {}]

\* a digest that starts from what the store already holds.
md5_at_open_seeded(seed) == md5_update(md5_new, seed)
\* line 57: md5_file starts a new digest, after lines 174-178 have put the
\* data into the buffer it wraps.
md5_at_open(seed) == md5_new

\* Chunk(path, data, file_obj, mode): on failure the caller gets no object
\* and keeps what it had; on success the new object replaces the old one.
Construct(path, data, file_obj, m) ==
    /\ nChunks < MaxChunks
    /\ nChunks' = nChunks + 1
    /\ LET r == resolve(path, data, file_obj, m) IN
       /\ last' = [op |-> "init", result |-> r.result, path |-> path,
                   mode |-> m, srcs |-> Sources(path, data, file_obj)]
       /\ IF r.result # "ok"
          THEN UNCHANGED <<fsVars, objVars, itVars, src_path, added, origin,
                         work_path, nAdds, passes, closed, full_passes>>
          ELSE
            /\ fs_dirs' = IF r.mkdir THEN fs_dirs \cup {dirname(path)} ELSE fs_dirs
            /\ fs_files' = IF r.create THEN fs_files \cup {path} ELSE fs_files
            /\ fs_data' = IF r.create THEN [fs_data EXCEPT ![path] = <<>>] ELSE fs_data
            /\ origin' = IF r.create THEN [origin EXCEPT ![path] = None] ELSE origin
            /\ alive' = TRUE
            /\ mode' = r.mode
            /\ _count' = 0
            /\ _md5_hexdigest' = None
            /\ _o_chunk_fh' = (r.mode \in {"ab", "wb"})
            /\ _o_protocol' = (r.mode \in {"ab", "wb"})
            /\ _i_chunk_fh' = (r.mode \notin {"ab", "wb"})
            /\ wbuf' = <<>>
            /\ md5' = md5_at_open(r.mem)
            /\ target' = r.target
            /\ mem' = r.mem
            /\ fpos' = 0
            /\ seekable' = r.seekable
            /\ fh_closed' = FALSE
            /\ it_pc' = "none"
            /\ rbuf' = <<>>
            /\ yielded' = <<>>
            /\ src_path' = path
            /\ added' = <<>>
            /\ passes' = 0
            /\ closed' = FALSE
            /\ full_passes' = 0
            /\ UNCHANGED <<work_path, nAdds>>

\* ------------------------------------------------------------ Chunk.add
\* add() without the assertion of line 202.
can_add_unguarded == TRUE
\* line 202: the assertion that guards add().
can_add == _o_protocol

add(msg) ==
    /\ alive
    /\ can_add => nAdds < MaxAdds
    /\ IF ~can_add
       THEN /\ last' = Call("add", "AssertionError")
            /\ UNCHANGED <<fsVars, objVars, itVars, ghostVars>>
       ELSE /\ wbuf' = wbuf \o Encode(msg)
            /\ _count' = _count + 1
            /\ nAdds' = nAdds + 1
            /\ added' = IF _o_chunk_fh THEN Append(added, msg) ELSE added
            /\ last' = Call("add", "ok")
            /\ UNCHANGED <<fsVars, alive, mode, _md5_hexdigest, _o_chunk_fh,
                           _o_protocol, _i_chunk_fh, md5, target, mem, fpos,
                           seekable, fh_closed, itVars, src_path, origin,
                           work_path, nChunks, passes, closed, full_passes>>

\* ---------------------------------------------------------- Chunk.close
\* close() that forgets to drop the handle.
fh_kept_after_close == TRUE
\* line 215: what close() leaves in self._o_chunk_fh.
fh_after_close == FALSE
\* close() that takes the digest before flushing.
snapshot_before_flush(before, after) == hexdigest(before)
\* line 214: the digest close() keeps, taken after the flush of line 211.
snapshot(before, after) == hexdigest(after)

close ==
    /\ alive
    /\ closed' = TRUE
    /\ IF ~_o_chunk_fh
       THEN /\ last' = Call("close", "ok")
            /\ UNCHANGED <<fsVars, objVars, itVars, src_path, added, origin,
                           work_path, nChunks, nAdds, passes, full_passes>>
       ELSE LET flushed == md5_update(md5, wbuf) IN
            IF fh_closed
            THEN \* md5_file.write folds the bytes in, then the closed file raises
                 /\ md5' = flushed
                 /\ wbuf' = <<>>
                 /\ last' = Call("close", "ValueError")
                 /\ UNCHANGED <<fsVars, alive, mode, _count, _md5_hexdigest,
                                _o_chunk_fh, _o_protocol, _i_chunk_fh, target,
                                mem, fpos, seekable, fh_closed, itVars,
                                src_path, added, origin, work_path, nChunks,
                                nAdds, passes, full_passes>>
            ELSE /\ md5' = flushed
                 /\ wbuf' = <<>>
                 /\ IF target = "mem"
                    THEN /\ mem' = mem \o wbuf
                         /\ UNCHANGED <<fs_data, origin>>
                    ELSE /\ fs_data' = [fs_data EXCEPT ![target] = @ \o wbuf]
                         /\ origin' = [origin EXCEPT ![target] =
                                          IF mode = "wb" THEN <<added>> ELSE None]
                         /\ mem' = mem
                 /\ fh_closed' = TRUE
                 /\ _md5_hexdigest' = snapshot(md5, flushed)
                 /\ _o_chunk_fh' = fh_after_close
                 /\ last' = Call("close", "ok")
                 /\ UNCHANGED <<fs_files, fs_dirs, alive, mode, _count,
                                _o_protocol, _i_chunk_fh, target, fpos, seekable,
                                itVars, src_path, added, work_path, nChunks,
                                nAdds, passes, full_passes>>

\* -------------------------------------------------- Chunk.md5_hexdigest
md5_hexdigest ==
    IF _md5_hexdigest # None THEN _md5_hexdigest
    ELSE IF _o_chunk_fh THEN hexdigest(md5)
    ELSE IF _i_chunk_fh THEN hexdigest(md5)
    ELSE None

\* a length that counts the records of the running iteration only.
len_of_pass == Len(yielded)
\* Chunk.__len__
len == _count

\* The bytes of the store md5_file._fh is open on.
Store == IF target = "mem" THEN mem ELSE fs_data[target]

\* ------------------------------------------------------- Chunk.__iter__
\* file.read(n) at position pos.
fh_read(src, pos, n) ==
    SubSeq(src, pos + 1, IF pos + n < Len(src) THEN pos + n ELSE Len(src))

\* msg.read(i_protocol): field headers until STOP, each byte taken from
\* TBufferedTransport.read, which refills its buffer from md5_file.read;
\* an empty read raises EOFError wherever in the record it happens.
RECURSIVE read_msg(_, _, _, _, _)
read_msg(src, rb, pos, h, n) ==
    LET refill == rb = <<>>
        block == IF refill THEN fh_read(src, pos, RBufSize) ELSE <<>>
        rb2 == IF refill THEN block ELSE rb
        pos2 == pos + Len(block)
        h2 == md5_update(h, block)
    IN IF rb2 = <<>>
       THEN [eof |-> TRUE, msg |-> n, rbuf |-> <<>>, pos |-> pos2, md5 |-> h2]
       ELSE IF Head(rb2) = T_STOP
       THEN [eof |-> FALSE, msg |-> n, rbuf |-> Tail(rb2), pos |-> pos2, md5 |-> h2]
       ELSE read_msg(src, Tail(rb2), pos2, h2, n + 1)

\* line 246: the assertion that guards iteration.
can_iter == _i_chunk_fh
\* an iteration that never seeks back.
rewind_never(pos) == pos
\* lines 249-252: where a fresh iteration starts reading.
rewind(pos) == IF seekable THEN 0 ELSE pos
\* a digest that starts afresh with every iteration.
digest_reset_at_rewind(h) == md5_new
\* lines 249-257: seek(0) is passed on to the file, and the md5 object of
\* md5_file stays as it is.
digest_at_rewind(h) == h

\* One next() on the generator: lines 261-276.
Step(r) ==
    /\ md5' = r.md5
    /\ fpos' = r.pos
    /\ rbuf' = r.rbuf
    /\ IF r.eof
       THEN /\ it_pc' = "finished"
            /\ full_passes' = full_passes + 1
            /\ last' = Call("next", "StopIteration")
            /\ UNCHANGED <<_count, yielded>>
       ELSE /\ it_pc' = "running"
            /\ _count' = _count + 1
            /\ yielded' = Append(yielded, r.msg)
            /\ last' = Call("next", "ok")
            /\ UNCHANGED full_passes
    /\ UNCHANGED <<fsVars, alive, mode, _md5_hexdigest, _o_chunk_fh, _o_protocol,
                   _i_chunk_fh, wbuf, target, mem, seekable, fh_closed,
                   src_path, added, origin, work_path, nChunks, nAdds,
                   closed>>

\* iter(chunk) followed by the first next(): the generator body starts here.
IterStart ==
    /\ alive
    /\ passes < MaxPasses
    /\ IF ~can_iter
       THEN /\ last' = Call("iter", "AssertionError")
            /\ UNCHANGED <<fsVars, objVars, itVars, ghostVars>>
       ELSE /\ passes' = passes + 1
            /\ LET r == read_msg(Store, <<>>, rewind(fpos),
                                 digest_at_rewind(md5), 0) IN
               /\ md5' = r.md5
               /\ fpos' = r.pos
               /\ rbuf' = r.rbuf
               /\ IF r.eof
                  THEN /\ it_pc' = "finished"
                       /\ full_passes' = full_passes + 1
                       /\ yielded' = <<>>
                       /\ last' = Call("next", "StopIteration")
                       /\ UNCHANGED _count
                  ELSE /\ it_pc' = "running"
                       /\ _count' = _count + 1
                       /\ yielded' = <<r.msg>>
                       /\ last' = Call("next", "ok")
                       /\ UNCHANGED full_passes
            /\ UNCHANGED <<fsVars, alive, mode, _md5_hexdigest, _o_chunk_fh,
                           _o_protocol, _i_chunk_fh, wbuf, target, mem, seekable,
                           fh_closed, src_path, added, origin, work_path, nChunks, nAdds,
                   closed>>

\* A later next() on the running generator.
IterNext ==
    /\ alive
    /\ it_pc = "running"
    /\ Step(read_msg(Store, rbuf, fpos, md5, 0))
    /\ UNCHANGED passes

\* ---------------------------------------- the xz / gpg pipeline functions
Callers == {"A", "B"}
Keys == {"k1", "k2"}
KeyOf(c) == IF c = "A" THEN "k1" ELSE "k2"
KeyByte(k) == IF k = "k1" THEN 3 ELSE 4
DirNames == 1..(2 * Cardinality(Callers))
Payloads == {<<>>, <<T_FIELD, T_STOP>>}

\* How one external process can end: it runs and is silent on stderr, runs
\* and writes to stderr, exits non-zero with or without text on stderr, or
\* cannot be launched at all (Popen raises OSError).
Outcomes == {"ok", "warn", "fail", "fail_silent", "missing"}

\* gpg --encrypt to a recipient, and gpg --decrypt with the keys of a homedir.
GpgEncrypt(b, k) == <<KeyByte(k)>> \o b
CanDecrypt(b, ks) == b # <<>> /\ \E k \in ks : Head(b) = KeyByte(k)
XzDecompress(c) == XzCat(c)

\* decrypt_and_uncompress starting with its xz child.
first_pc_xz_first(kind, key) == "xz"
\* The calls a caller can make: either function, with or without its key.
first_pc(kind, key) ==
    IF kind = "compress_and_encrypt" \/ key = "None" THEN "xz" ELSE "makedirs"
NewCall(kind, data, key, c) ==
    [kind |-> kind, data |-> data, key |-> key, gpg_recipient |-> KeyOf(c),
     errors |-> <<>>, gpg_dir |-> 0, pc |-> first_pc(kind, key),
     result |-> "running"]
Calls(c) ==
    {NewCall("compress_and_encrypt", d, k, c) :
        d \in Payloads, k \in {"None", KeyOf(c)}}
    \cup {NewCall("decrypt_and_uncompress", XzCompress(d), "None", c) :
            d \in Payloads}
    \cup {NewCall("decrypt_and_uncompress",
                  GpgEncrypt(XzCompress(d), KeyOf(c)), KeyOf(c), c) :
            d \in Payloads}

PipeIdle ==
    /\ call = [c \in Callers |->
                 [NewCall("compress_and_encrypt", <<>>, "None", c)
                    EXCEPT !.pc = "done", !.result = "returned"]]
    /\ tmp_dirs = {}
    /\ homedir = [d \in DirNames |-> {}]
    /\ uuid_count = 0
    /\ ran = [c \in Callers |-> <<>>]
    /\ plain = [c \in Callers |-> None]

Raise(c, e) == call' = [call EXCEPT ![c].pc = "done", ![c].result = e]

\* One child process of a call: which stage it was, what it was given, how
\* it ended, and whether what it was given was something it can work on.
Child(stage, input, out, input_ok) ==
    [stage |-> stage, input |-> input, out |-> out, input_ok |-> input_ok]
Launched(c, child) == ran' = [ran EXCEPT ![c] = Append(@, child)]
\* The ways a child process breaks down, and whether the call can meet one
\* more of them.
Faulty == {"fail", "fail_silent", "missing"}
NFaults(c) ==
    Cardinality({i \in DOMAIN ran[c] :
                    ran[c][i].out \in Faulty /\ ran[c][i].input_ok})
MayEnd(c, out) == out \in Faulty => NFaults(c) < MaxFaults
\* Every child of the call did what the tool is meant to do with what it was
\* given: xz is silent, gpg may print its banners.
Healthy(c) ==
    \A i \in DOMAIN ran[c] :
        ran[c][i].input_ok =>
            \/ ran[c][i].out = "ok"
            \/ ran[c][i].stage # "xz" /\ ran[c][i].out = "warn"

\* compress_and_encrypt returning its xz output without encrypting it.
after_xz_no_encrypt(kind, key) == "done"
\* lines 332 and 352: what follows the xz child.
after_xz(kind, key) ==
    IF kind = "compress_and_encrypt" /\ key # "None" THEN "makedirs" ELSE "done"

\* What the caller holds of the log when the call has ended: the list the
\* call returns, or nothing of it when the call raised (the AssertionError
\* of lines 330 and 350 carries xz's stderr, an OSError carries errno).
Delivered(k) == IF k.result = "returned" THEN k.errors ELSE <<>>

\* The xz child of lines 341-350 (compress) and 321-330 (decompress).
xz_stage(c, out) ==
    LET k == call[c]
        compress == k.kind = "compress_and_encrypt"
        valid == compress \/ XzValid(k.data)
        o == IF ~valid /\ out \in {"ok", "warn"} THEN "fail" ELSE out
        output == IF o \in {"ok", "warn"}
                  THEN (IF compress THEN XzCompress(k.data)
                        ELSE XzDecompress(k.data))
                  ELSE <<>>
        after == after_xz(k.kind, k.key)
    IN /\ k.pc = "xz"
       /\ MayEnd(c, out)
       /\ IF o = "missing" THEN Raise(c, "OSError")
          ELSE IF o \in {"warn", "fail"} THEN Raise(c, "AssertionError")
          ELSE call' = [call EXCEPT ![c].data = output, ![c].pc = after,
                          ![c].result =
                              IF after = "done" THEN "returned" ELSE "running"]
       /\ Launched(c, Child("xz", k.data, o, valid))
       /\ UNCHANGED <<tmp_dirs, homedir, uuid_count, plain>>

\* a name that is the same for every call.
uuid1_fixed(n) == 1
\* uuid.uuid1(): a name no earlier call of it returned.
uuid1(n) == n + 1

\* lines 289-290 and 354-355: gpg_dir = '/tmp/%s' % uuid.uuid1(), makedirs.
makedirs(c) ==
    LET dir == uuid1(uuid_count) IN
    /\ call[c].pc = "makedirs"
    /\ uuid_count' = uuid_count + 1
    /\ IF dir \in tmp_dirs
       THEN /\ Raise(c, "OSError")
            /\ UNCHANGED <<tmp_dirs, homedir>>
       ELSE /\ tmp_dirs' = tmp_dirs \cup {dir}
            /\ homedir' = [homedir EXCEPT ![dir] = {}]
            /\ call' = [call EXCEPT ![c].gpg_dir = dir, ![c].pc = "import"]
    /\ UNCHANGED <<ran, plain>>

\* lines 292-298 and 359-365: gpg --homedir gpg_dir --import key.
gpg_import(c, out) ==
    LET k == call[c] IN
    /\ k.pc = "import"
    /\ MayEnd(c, out)
    /\ IF out = "missing"
       THEN /\ Raise(c, "OSError")
            /\ UNCHANGED homedir
       ELSE /\ homedir' = IF out \in {"ok", "warn"} /\ k.gpg_dir \in tmp_dirs
                          THEN [homedir EXCEPT ![k.gpg_dir] = @ \cup {k.key}]
                          ELSE homedir
            /\ call' = [call EXCEPT
                          ![c].errors = IF out \in {"warn", "fail"}
                                        THEN Append(@, "import") ELSE @,
                          ![c].pc = "crypt"]
    /\ Launched(c, Child("import", <<>>, out, TRUE))
    /\ UNCHANGED <<tmp_dirs, uuid_count, plain>>

\* lines 302-315 (decrypt) and 368-382 (encrypt): the second gpg child.
gpg_crypt(c, out) ==
    LET k == call[c]
        encrypt == k.kind = "compress_and_encrypt"
        ks == IF k.gpg_dir \in tmp_dirs THEN homedir[k.gpg_dir] ELSE {}
        able == IF encrypt THEN k.gpg_recipient \in ks
                ELSE CanDecrypt(k.data, ks)
        o == IF ~able /\ out \in {"ok", "warn"} THEN "fail" ELSE out
        output == IF o \in {"ok", "warn"}
                  THEN (IF encrypt THEN GpgEncrypt(k.data, k.gpg_recipient)
                        ELSE Tail(k.data))
                  ELSE <<>>
    IN /\ k.pc = "crypt"
       /\ MayEnd(c, out)
       /\ IF o = "missing" THEN Raise(c, "OSError")
          ELSE call' = [call EXCEPT
                          ![c].data = output,
                          ![c].errors = IF o \in {"warn", "fail"}
                                        THEN Append(@, "gpg") ELSE @,
                          ![c].pc = "rmtree"]
       /\ Launched(c, Child("crypt", k.data, o, able))
       /\ UNCHANGED <<tmp_dirs, homedir, uuid_count, plain>>

\* lines 318 and 384: shutil.rmtree(gpg_dir, ignore_errors=True).
rmtree(c) ==
    LET k == call[c]
        encrypt == k.kind = "compress_and_encrypt"
    IN /\ k.pc = "rmtree"
       /\ tmp_dirs' = tmp_dirs \ {k.gpg_dir}
       /\ homedir' = [homedir EXCEPT ![k.gpg_dir] = {}]
       /\ call' = [call EXCEPT
                     ![c].pc = IF encrypt THEN "done" ELSE "xz",
                     ![c].result = IF encrypt THEN "returned" ELSE "running"]
       /\ UNCHANGED <<uuid_count, ran, plain>>

\* The caller hands what compress_and_encrypt returned to
\* decrypt_and_uncompress, with the private half of the same key.
Chain(c) ==
    LET k == call[c] IN
    /\ k.kind = "compress_and_encrypt"
    /\ k.result = "returned"
    /\ call' = [call EXCEPT
                  ![c] = NewCall("decrypt_and_uncompress", k.data, k.key, c)]
    /\ plain' = [plain EXCEPT ![c] = IF Healthy(c) THEN <<ran[c][1].input>>
                                     ELSE None]
    /\ ran' = [ran EXCEPT ![c] = <<>>]
    /\ UNCHANGED <<tmp_dirs, homedir, uuid_count>>

\* ------------------------------------------------------- specification
XzSeed == XzCompress(EncodeAll(<<1, 0>>))

ChunkInit ==
    /\ work_path \in Paths
    /\ fs_files \in {{}, {"f.xz"} \cap {work_path}}
    /\ fs_data = [p \in Paths |-> IF p \in fs_files THEN XzSeed ELSE <<>>]
    /\ fs_dirs = {}
    /\ alive = FALSE
    /\ mode = ""
    /\ _count = 0
    /\ _md5_hexdigest = None
    /\ _o_chunk_fh = FALSE
    /\ _o_protocol = FALSE
    /\ _i_chunk_fh = FALSE
    /\ wbuf = <<>>
    /\ md5 = md5_new
    /\ target = "mem"
    /\ mem = <<>>
    /\ fpos = 0
    /\ seekable = FALSE
    /\ fh_closed = FALSE
    /\ it_pc = "none"
    /\ rbuf = <<>>
    /\ yielded = <<>>
    /\ last = Call("none", "ok")
    /\ src_path = "None"
    /\ added = <<>>
    /\ origin = [p \in Paths |-> None]
    /\ nChunks = 0
    /\ nAdds = 0
    /\ passes = 0
    /\ closed = FALSE
    /\ full_passes = 0

\* The life of Chunk objects: the caller constructs them with arguments the
\* constructor accepts, adds, closes and iterates.
Init == ChunkInit /\ PipeIdle

Next ==
    \/ /\ nChunks < MaxChunks
       /\ \E path \in {"None", work_path}, data \in Opt(Buffers),
             file_obj \in Opt(Handles), m \in Modes :
             /\ resolve(path, data, file_obj, m).result = "ok"
             /\ Construct(path, data, file_obj, m)
       /\ UNCHANGED pipeVars
    \/ (\E msg \in Msgs : add(msg)) /\ UNCHANGED pipeVars
    \/ close /\ UNCHANGED pipeVars
    \/ IterStart /\ UNCHANGED pipeVars
    \/ IterNext /\ UNCHANGED pipeVars

Spec == Init /\ [][Next]_vars

\* The constructor under every combination of arguments, and the writes
\* that follow a construction.
CtorNext ==
    \/ /\ nChunks < MaxChunks
       /\ \E path \in {"None", work_path}, data \in Opt(Buffers),
             file_obj \in Opt(Handles), m \in Modes :
             Construct(path, data, file_obj, m)
       /\ UNCHANGED pipeVars
    \/ (\E msg \in Msgs : add(msg)) /\ UNCHANGED pipeVars
    \/ close /\ UNCHANGED pipeVars

CtorSpec == Init /\ [][CtorNext]_vars

\* The payload a decrypt_and_uncompress input was made from.
PlainOf(k) ==
    IF k.kind = "compress_and_encrypt" THEN None
    ELSE <<CHOOSE d \in Payloads :
             k.data = IF k.key = "None" THEN XzCompress(d)
                      ELSE GpgEncrypt(XzCompress(d), k.key)>>

\* Two callers, each making a pipeline call and handing what
\* compress_and_encrypt returns to decrypt_and_uncompress, interleaved stage
\* by stage.
PipeInit ==
    /\ ChunkInit /\ work_path = "d/f" /\ fs_files = {}
    /\ call \in [Callers -> UNION {Calls(c) : c \in Callers}]
    /\ \A c \in Callers : call[c] \in Calls(c)
    /\ tmp_dirs = {}
    /\ homedir = [d \in DirNames |-> {}]
    /\ uuid_count = 0
    /\ ran = [c \in Callers |-> <<>>]
    /\ plain = [c \in Callers |-> PlainOf(call[c])]

PipeNext ==
    \/ (\E c \in Callers, out \in Outcomes : xz_stage(c, out))
            /\ UNCHANGED chunkVars
    \/ (\E c \in Callers : makedirs(c)) /\ UNCHANGED chunkVars
    \/ (\E c \in Callers, out \in Outcomes : gpg_import(c, out))
            /\ UNCHANGED chunkVars
    \/ (\E c \in Callers, out \in Outcomes : gpg_crypt(c, out))
            /\ UNCHANGED chunkVars
    \/ (\E c \in Callers : rmtree(c)) /\ UNCHANGED chunkVars
    \/ (\E c \in Callers : Chain(c)) /\ UNCHANGED chunkVars

PipeSpec == PipeInit /\ [][PipeNext]_vars

\* ================================================================ claims
IsCall(op) == last'.op = op
Observable == <<md5_hexdigest, len, Store, fsVars>>

\* C1: messages written by a write-mode Chunk (add() per message, then
\* close()) come back, in order, from one full iteration of a read-mode
\* Chunk over the same path, and len() then equals their number.
C1_RoundTrip ==
    (/\ alive /\ mode = "rb" /\ src_path \in Paths
     /\ origin[src_path] # None
     /\ passes = 1 /\ it_pc = "finished")
    => /\ yielded = origin[src_path][1]
       /\ len = Len(origin[src_path][1])

\* The same round trip on paths without the .xz suffix.
RoundTripPlainPath == endswith_xz(src_path) \/ C1_RoundTrip
ReadBackPlainPath ==
    /\ alive /\ mode = "rb" /\ src_path = "d/f" /\ origin[src_path] # None
    /\ passes = 1 /\ it_pc = "finished" /\ Len(yielded) = 2
    /\ yielded[1] # yielded[2]

\* C2: once close() was called on a write- or append-mode Chunk, add()
\* raises, leaves the record count alone and adds no bytes to the store.
C2_AddAfterCloseFails ==
    [][(alive /\ mode \in {"wb", "ab"} /\ closed /\ IsCall("add"))
        => /\ last'.result # "ok"
           /\ len' = len
           /\ Store' = Store]_vars

\* C3: add() on a read-mode Chunk fails and iteration on a write- or
\* append-mode Chunk fails, and neither changes the record count, the
\* digest or the store.
C3_ModeEnforcement ==
    [][/\ (alive /\ mode = "rb" /\ IsCall("add"))
           => (last'.result = "AssertionError" /\ Observable' = Observable)
       /\ (alive /\ mode \in {"wb", "ab"} /\ (IsCall("iter") \/ IsCall("next")))
           => (last'.result = "AssertionError" /\ Observable' = Observable)]_vars
C3_Witness ==
    /\ alive /\ mode = "rb" /\ len > 0
    /\ last.op = "add" /\ last.result = "AssertionError"
IterRefusedOnWriter ==
    /\ alive /\ mode \in {"wb", "ab"} /\ len > 0
    /\ last.op = "iter" /\ last.result = "AssertionError"

\* C4: a close() that follows an earlier close() of the same Chunk, in any
\* mode, succeeds and changes neither the digest, the record count nor any
\* store.
C4_IdempotentClose ==
    [][(alive /\ closed /\ IsCall("close"))
        => (last'.result = "ok" /\ Observable' = Observable)]_vars
\* A second close(): the write buffer holds a record added after the first.
C4_Witness ==
    /\ alive /\ mode = "wb" /\ closed /\ last.op = "close"
    /\ wbuf # <<>> /\ Store # <<>>

\* C5: after close() of a write-mode Chunk the digest is the digest of the
\* whole content of the store it wrote (of no bytes when nothing was added).
C5_DigestCorrect ==
    (alive /\ mode = "wb" /\ closed) => md5_hexdigest = Md5Of(Store)
C5_Witness ==
    /\ alive /\ mode = "wb" /\ closed /\ Len(added) = 2
    /\ md5_hexdigest = Md5Of(EncodeAll(added))

\* C6: once close() was called on a Chunk, in any mode, no later add(),
\* iteration or close() changes what the digest property returns.
C6_DigestFrozen ==
    [][(alive /\ closed /\ ~IsCall("init"))
        => md5_hexdigest' = md5_hexdigest]_vars

\* C7: a construction given more than one of path, data and file_obj fails.
C7_OneSource ==
    (last.op = "init" /\ Cardinality(last.srcs) > 1) => last.result # "ok"

\* C8: constructing over a path in write mode when the file exists, or in
\* read mode when it does not, fails and leaves the file system as it was.
C8_PathPreconditions ==
    [][(/\ IsCall("init") /\ last'.path # "None"
        /\ \/ last'.mode = "wb" /\ last'.path \in fs_files
           \/ last'.mode = "rb" /\ last'.path \notin fs_files)
        => (last'.result # "ok" /\ fsVars' = fsVars)]_vars
C8_Witness ==
    /\ last.op = "init" /\ last.srcs = {"path"} /\ last.mode = "wb"
    /\ last.path \in fs_files /\ fs_data[last.path] # <<>>
    /\ last.result = "AssertionError"
ReadOfMissingRefused ==
    /\ last.op = "init" /\ last.srcs = {"path"} /\ last.mode = "rb"
    /\ last.path \notin fs_files /\ fs_dirs = {}
    /\ last.result = "AssertionError"

\* C9: a path ending in .xz is only ever opened in read mode: construction
\* in write or append mode fails whether or not the file exists, and no
\* Chunk ever has such a path open for writing.
C9_XzReadOnly ==
    /\ (last.op = "init" /\ endswith_xz(last.path) /\ last.mode \in {"wb", "ab"})
        => last.result # "ok"
    /\ ~(alive /\ endswith_xz(target) /\ mode \in {"wb", "ab"})

\* C10: whenever a pipeline call created its scratch key-store directory,
\* the directory is gone when the call has ended, however it ended.
C10_ScratchRemoved ==
    \A c \in Callers :
        (call[c].pc = "done" /\ call[c].gpg_dir # 0)
            => call[c].gpg_dir \notin tmp_dirs
\* The same for the calls that return.
ScratchRemovedOnReturn ==
    \A c \in Callers :
        (call[c].result = "returned" /\ call[c].gpg_dir # 0)
            => call[c].gpg_dir \notin tmp_dirs

\* ------------------------------------------------ the pipeline's claims
Stages(c) == [i \in DOMAIN ran[c] |-> ran[c][i].stage]
IsPrefix(s, t) == Len(s) <= Len(t) /\ s = SubSeq(t, 1, Len(s))
\* The text a child wrote to stderr, as the call's log names it.
RECURSIVE Diagnostics(_)
Diagnostics(r) ==
    IF r = <<>> THEN <<>>
    ELSE (IF Head(r).stage # "xz" /\ Head(r).out \in {"warn", "fail"}
          THEN <<IF Head(r).stage = "import" THEN "import" ELSE "gpg">>
          ELSE <<>>) \o Diagnostics(Tail(r))

\* C11: a pipeline call one of whose child processes was missing or exited
\* with a non-zero status never returns a (log, bytes) result: it fails.
C11_ToolFailureFatal ==
    \A c \in Callers :
        (\E i \in DOMAIN ran[c] : ran[c][i].out \in Faulty)
            => call[c].result # "returned"

\* C12: decrypt_and_uncompress, its tools working, gives back the bytes d
\* when handed what compress_and_encrypt returned for d with the matching
\* key; and a call without key material runs the xz child alone and makes
\* no scratch directory.
C12_PipelineRoundTrip ==
    \A c \in Callers :
        LET k == call[c] IN
        /\ (/\ k.kind = "decrypt_and_uncompress" /\ plain[c] # None
             /\ k.pc = "done" /\ Healthy(c))
            => (k.result = "returned" /\ k.data = plain[c][1])
        /\ k.key = "None"
            => (k.gpg_dir = 0 /\ \A i \in DOMAIN ran[c] : ran[c][i].stage = "xz")
\* A caller encrypted a non-empty payload and got it back; the other caller
\* never made a directory, so the first one made both.
C12_Witness ==
    \E c \in Callers :
        /\ call[c].kind = "decrypt_and_uncompress" /\ call[c].key # "None"
        /\ call[c].result = "returned" /\ call[c].gpg_dir = 2
        /\ plain[c] = << <<T_FIELD, T_STOP>> >>
        /\ call[c].data = <<T_FIELD, T_STOP>>
        /\ \A o \in Callers \ {c} : call[o].key = "None"
\* The round trip of the empty buffer without keys.
RoundTripEmptyNoKey ==
    \E c \in Callers :
        /\ call[c].kind = "decrypt_and_uncompress" /\ call[c].key = "None"
        /\ call[c].result = "returned" /\ plain[c] = << <<>> >>
        /\ call[c].data = <<>> /\ uuid_count = 0

\* C13: two pipeline calls running side by side never have the same scratch
\* directory, a call between makedirs and rmtree finds its directory in
\* place, and that directory holds no key but the call's own.
C13_Isolation ==
    \A c \in Callers :
        /\ \A o \in Callers \ {c} :
              (call[c].gpg_dir # 0 /\ call[o].gpg_dir # 0)
                  => call[c].gpg_dir # call[o].gpg_dir
        /\ call[c].pc \in {"import", "crypt", "rmtree"}
            => /\ call[c].gpg_dir \in tmp_dirs
               /\ homedir[call[c].gpg_dir] \subseteq {call[c].key}
\* Both calls have imported their keys and neither has cleaned up; one
\* encrypts, the other decrypts.
C13_Witness ==
    /\ \A c \in Callers :
          /\ call[c].pc = "crypt"
          /\ homedir[call[c].gpg_dir] = {KeyOf(c)}
    /\ \E c, o \in Callers : call[c].kind # call[o].kind

\* C17: when a pipeline call has ended, whichever way, the caller has every
\* text the gpg children wrote to stderr: in the returned log or in the
\* exception.
C17_DiagnosticsDelivered ==
    \A c \in Callers :
        call[c].pc = "done" => Delivered(call[c]) = Diagnostics(ran[c])

\* C18: the children run in the order xz, import, encrypt (compress) or
\* import, decrypt, xz (decrypt), the gpg children only when a key was
\* given; stderr text from xz ends the call with an error, in
\* compress_and_encrypt before any scratch directory is made; stderr text
\* from a gpg child goes to the returned log and ends nothing; gpg --encrypt
\* is given all that xz wrote; xz --decompress runs after the scratch
\* directory is removed.
Order(k) ==
    IF k.key = "None" THEN <<"xz">>
    ELSE IF k.kind = "compress_and_encrypt" THEN <<"xz", "import", "crypt">>
    ELSE <<"import", "crypt", "xz">>
C18_StageOrder ==
    \A c \in Callers :
        LET k == call[c]
            r == ran[c]
            compress == k.kind = "compress_and_encrypt"
        IN /\ IsPrefix(Stages(c), Order(k))
           /\ k.result = "returned"
               => (Stages(c) = Order(k) /\ k.errors = Diagnostics(r))
           /\ k.result \notin {"running", "returned"}
               => /\ r # <<>>
                  /\ \/ r[Len(r)].out = "missing"
                     \/ r[Len(r)].stage = "xz"
                        /\ r[Len(r)].out \in {"warn", "fail"}
           /\ \A i \in DOMAIN r :
                 /\ (r[i].stage = "xz" /\ r[i].out \in {"warn", "fail"})
                     => /\ k.result = "AssertionError" /\ i = Len(r)
                        /\ compress => k.gpg_dir = 0
                 /\ (r[i].stage = "crypt" /\ compress)
                     => r[i].input = IF r[1].out = "ok"
                                     THEN XzCompress(r[1].input) ELSE <<>>
           /\ (~compress /\ k.gpg_dir # 0
                /\ (k.pc = "xz" \/ \E i \in DOMAIN r : r[i].stage = "xz"))
               => k.gpg_dir \notin tmp_dirs
\* gpg --decrypt printed to stderr and the call went on; xz --decompress
\* printed to stderr and the call ended with an error.
C18_Witness ==
    \E c \in Callers :
        /\ call[c].kind = "decrypt_and_uncompress"
        /\ call[c].result = "AssertionError"
        /\ Stages(c) = <<"import", "crypt", "xz">>
        /\ ran[c][2].out = "warn" /\ ran[c][2].input_ok
        /\ ran[c][3].out = "warn" /\ ran[c][3].input_ok
\* gpg --import and gpg --encrypt both printed to stderr and the call
\* returned its bytes with a log of two texts.
EncryptWarnedAndReturned ==
    \E c \in Callers :
        /\ call[c].kind = "compress_and_encrypt"
        /\ call[c].result = "returned" /\ Len(call[c].errors) = 2
        /\ call[c].data # <<>>

\* --------------------------------------- iteration, counter and digests
EndsAtBoundary(b) == b = <<>> \/ b[Len(b)] = T_STOP
RECURSIVE Rep(_, _)
Rep(b, k) == IF k = 0 THEN <<>> ELSE b \o Rep(b, k - 1)

\* C14: an iteration of a read-mode Chunk ends without an error only when
\* the store ends at the end of a record; over a store that ends inside a
\* record it ends with an error that is not the normal end.
C14_TruncationSurfaced ==
    (alive /\ mode = "rb" /\ last.op = "next" /\ last.result = "StopIteration")
        => EndsAtBoundary(Store)

\* C15: on a read-mode Chunk over a seekable store of whole records, an
\* iteration started after an earlier one, finished or abandoned, yields the
\* records of the store in order from the first one.
C15_Restartable ==
    (alive /\ mode = "rb" /\ seekable /\ passes >= 2 /\ EndsAtBoundary(Store))
        => /\ IsPrefix(EncodeAll(yielded), Store)
           /\ it_pc = "running" => yielded # <<>>
           /\ it_pc = "finished" => EncodeAll(yielded) = Store
\* The first iteration was abandoned after a record, the second one ran to
\* the end and gave both records.
C15_Witness ==
    /\ alive /\ mode = "rb" /\ seekable /\ passes = 2 /\ full_passes = 1
    /\ it_pc = "finished" /\ len = 3
    /\ Len(yielded) = 2 /\ EncodeAll(yielded) = Store
\* The second iteration follows one that ran to the end.
RestartAfterFullPass ==
    /\ alive /\ mode = "rb" /\ seekable /\ passes = 2 /\ full_passes = 2
    /\ Len(yielded) = 2 /\ EncodeAll(yielded) = Store

\* C16: len() is 0 on a new Chunk whatever its store holds, goes up by one
\* with every add() that returns and with every record an iteration yields,
\* and is changed by nothing else: it never goes down.
C16_RunningCounter ==
    [][IF IsCall("init") /\ last'.result = "ok" THEN len' = 0
       ELSE IF (IsCall("add") \/ IsCall("next")) /\ last'.result = "ok"
       THEN len' = len + 1
       ELSE len' = len]_vars
\* A reader that has gone twice over a store of two records.
C16_Witness ==
    /\ alive /\ mode = "rb" /\ it_pc = "finished" /\ passes = 2
    /\ EncodeAll(yielded) = Store /\ Len(yielded) = 2 /\ len = 4
\* A reader just opened on a store that holds records.
ReaderOpensAtZero ==
    /\ alive /\ mode = "rb" /\ last.op = "init" /\ Store # <<>> /\ len = 0

\* C19: the first close() of an append-mode Chunk over a buffer that held S
\* leaves S followed by the added records in the buffer, the digest of the
\* added records alone, and their number as len().
C19_AppendSession ==
    [][(/\ alive /\ mode = "ab" /\ target = "mem" /\ ~closed
        /\ IsCall("close"))
        => /\ last'.result = "ok"
           /\ Store \in Buffers
           /\ Store' = Store \o EncodeAll(added)
           /\ md5_hexdigest' = Md5Of(EncodeAll(added))
           /\ md5_hexdigest' # Md5Of(Store')
           /\ len' = Len(added)]_vars
C19_Witness ==
    /\ alive /\ mode = "ab" /\ target = "mem" /\ closed /\ last.op = "close"
    /\ Len(added) = 2 /\ len = 2
    /\ \E S \in Buffers : Store = S \o EncodeAll(added)
    /\ md5_hexdigest = Md5Of(EncodeAll(added))

\* C20: when k iterations of a read-mode Chunk over a seekable store B have
\* all run to the end, the digest is that of B repeated k times, which for
\* k > 1 is not the digest of B.
C20_DigestAccumulates ==
    (/\ alive /\ mode = "rb" /\ seekable /\ it_pc = "finished"
     /\ passes >= 1 /\ full_passes = passes)
        => /\ md5_hexdigest = Md5Of(Rep(Store, passes))
           /\ (passes > 1 /\ Store # <<>>) => md5_hexdigest # Md5Of(Store)
C20_Witness ==
    /\ alive /\ mode = "rb" /\ seekable /\ it_pc = "finished"
    /\ passes = 2 /\ full_passes = 2 /\ Store # <<>>
    /\ md5_hexdigest = Md5Of(Store \o Store)

====
